---- MODULE Spec2Model ----
(***************************************************************************)
(* The synchronisation engine of the ArchSet backend: the record store     *)
(* (tables notes and folders of one PostgreSQL database), the two          *)
(* reconcile passes of SyncService, the /sync endpoint that runs them one  *)
(* after the other, and the direct note and folder handlers that share     *)
(* the store with them.                                                    *)
(*                                                                         *)
(* Timestamps are integers read from one server clock, now, and every      *)
(* reading of the clock is later than the one before it.  A handler of the *)
(* sequential specifications reads the clock once.  Client-asserted        *)
(* updated_at values are arbitrary integers of 1 .. MaxClientTime: a       *)
(* client's clock may be behind or ahead of the server's.                  *)
(*                                                                         *)
(* Spec runs the handlers one after the other, SpecRetry is a client that  *)
(* sends one sync request twice, and SpecConc runs the sync requests of    *)
(* two devices of one account side by side, each request in the steps in   *)
(* which its transaction reads and writes the database.                    *)
(* SpecOwners syncs two accounts on one database, SpecFault lets the       *)
(* database raise in a pass and the client send again, SpecRaw posts       *)
(* bodies with malformed entries, and SpecIndex runs the indexing jobs     *)
(* that the sync requests queue.                                           *)
(* SpecOwnersApi adds the direct handlers to the two accounts, SpecAhead   *)
(* starts from rows that a client with a fast clock has left, SpecOrder    *)
(* posts batches of two entries, and SpecMedia syncs and deletes notes     *)
(* that have attachment files.                                             *)
(* SpecIndexFault runs the indexing jobs on a database that may raise,     *)
(* and SpecLinked posts a note together with the folder it references.     *)
(***************************************************************************)
EXTENDS Integers, Sequences, FiniteSets, TLC

(* ------------------------------ bounds -------------------------------- *)
\* Largest updated_at a client asserts.
MaxClientTime == 3
\* Number of handler calls in one behaviour.
MaxOps == 2
\* Largest number of entries (notes and folders together) in one sync request.
MaxBatch == 1
\* The same for a request that its client sends again (SpecRetry).
MaxRetryBatch == 2
\* Number of sync requests one device makes in SpecConc.
MaxSyncs == 2

(* ------------------------------ domains ------------------------------- *)
Users == {"u1", "u2"}
NoteIds == {"n1", "n2"}
FolderIds == {"f1"}
Paths == {"p1"}
\* The devices of SpecConc.
Clients == {"a", "b"}
\* SQL NULL / Python None in a string column.
NULL == "null"
\* last_sync_at absent from the request.
NoCkpt == -1

(***************************************************************************)
(* Rows.  notes and folders are functions from the primary key id to the   *)
(* row; an id outside the DOMAIN has no row.  title stands for the pair    *)
(* (title, date) and name for the pair (name, color): the code always      *)
(* copies the two together.  created_at is never read.                     *)
(*                                                                         *)
(* The database outlives the server process, so a behaviour starts from a  *)
(* database that earlier calls have filled (Init), and log records the     *)
(* calls made since: each call's request, its response, the time it ran    *)
(* at and the store it found.                                              *)
(***************************************************************************)
VARIABLES
    now,      \* the server clock (datetime.utcnow())
    notes,    \* committed rows of table notes
    folders,  \* committed rows of table folders
    files,    \* attachment files that exist on the server's disk
    log,      \* the handler calls so far, oldest first
    cl,       \* SpecConc: each device's checkpoint and its sync request in flight
    got,      \* SpecConc: the notes whose committed state each device holds
    writer,   \* SpecConc: the device whose sync request last wrote each note
    jobs,     \* the indexing jobs queued as background tasks, and those that raised
    docs      \* the notes whose text the vector store holds

vars == <<now, notes, folders, files, log, cl, got, writer, jobs, docs>>

\* Writing a row that is marked deleted removes it.
Put_RemovesDeleted(f, k, v) ==
    IF v.is_deleted
    THEN [x \in (DOMAIN f) \ {k} |-> f[x]]
    ELSE [x \in (DOMAIN f) \cup {k} |-> IF x = k THEN v ELSE f[x]]

\* f with key k bound to v (insert or replace).
Put(f, k, v) == [x \in (DOMAIN f) \cup {k} |-> IF x = k THEN v ELSE f[x]]

\* f without key k.
Drop(f, k) == [x \in (DOMAIN f) \ {k} |-> f[x]]

\* f restricted to the keys in S.
Restrict(f, S) == [x \in S |-> f[x]]

EmptyRows == [x \in {} |-> x]

(* --------------------------- the notes pass --------------------------- *)

\* The lookup without its user_id clause.
NoteFound_AnyOwner(rows, user, id) == id \in DOMAIN rows

\* select(Note).where(Note.id == id, Note.user_id == user.id)
NoteFound(rows, user, id) == id \in DOMAIN rows /\ rows[id].user_id = user

\* The foreign key notes.folder_id -> folders.id, checked when the row is flushed.
NoteFkOk(frows, folder_id) == folder_id = NULL \/ folder_id \in DOMAIN frows

\* "client_note.content or client_note.title"
HasText(r) == r.content # "" \/ r.title # ""

\* A tie overwrites too.
NoteIsNewer_OrEqual(e, ex) == e.updated_at >= ex.updated_at

\* "if client_note.updated_at > existing_note.updated_at"
NoteIsNewer(e, ex) == e.updated_at > ex.updated_at

\* A tombstone of an unknown id is inserted too.
NoteCreates_Always(e) == TRUE

\* "if not client_note.is_deleted": an unknown id becomes a row.
NoteCreates(e) == ~e.is_deleted

\* The overwrite leaves synced_at as it was.
NoteOverwritten_KeepsSyncedAt(ex, e, sync_time) ==
    [ex EXCEPT !.title = e.title,
               !.content = e.content,
               !.folder_id = e.folder_id,
               !.audio_path = e.audio_path,
               !.is_deleted = e.is_deleted,
               !.updated_at = e.updated_at]

\* The stored row ex with every field of the client state e assigned to it,
\* and synced_at stamped.
NoteOverwritten(ex, e, sync_time) ==
    [ex EXCEPT !.title = e.title,
               !.content = e.content,
               !.folder_id = e.folder_id,
               !.audio_path = e.audio_path,
               !.is_deleted = e.is_deleted,
               !.updated_at = e.updated_at,
               !.synced_at = sync_time]

\* An OSError of os.remove ends the pass.
RemoveRaises_OSError(present, rmOk) == present /\ ~rmOk

\* "except OSError: pass": a failing os.remove raises nothing into the pass.
RemoveRaises(present, rmOk) == FALSE

\* One iteration of the loop of sync_notes over client_notes.  s is the
\* session: its view of the rows, the disk, whether a statement has failed,
\* and notes_to_index.  rmOk tells whether os.remove succeeds in this call.
ApplyNoteEntry(s, frows, user, e, sync_time, rmOk) ==
    IF s.fail THEN s
    ELSE IF NoteFound(s.rows, user, e.id) THEN
        LET ex == s.rows[e.id] IN
        IF NoteIsNewer(e, ex) THEN
            LET w == NoteOverwritten(ex, e, sync_time)
                present == w.audio_path # NULL /\ w.audio_path \in s.files
                removed == e.is_deleted /\ present /\ rmOk
                w2 == IF removed THEN [w EXCEPT !.audio_path = NULL] ELSE w
            IN  [s EXCEPT !.rows = Put(@, e.id, w2),
                          !.files = IF removed THEN @ \ {w.audio_path} ELSE @,
                          !.index = IF ~e.is_deleted /\ HasText(e)
                                    THEN @ \cup {e.id} ELSE @,
                          !.fail = \/ ~NoteFkOk(frows, e.folder_id)
                                   \/ e.is_deleted /\ RemoveRaises(present, rmOk)]
        ELSE s
    ELSE IF NoteCreates(e) THEN
        IF e.id \in DOMAIN s.rows
        THEN [s EXCEPT !.fail = TRUE]
        ELSE LET new == [user_id |-> user,
                         title |-> e.title,
                         content |-> e.content,
                         folder_id |-> e.folder_id,
                         audio_path |-> e.audio_path,
                         is_deleted |-> e.is_deleted,
                         updated_at |-> e.updated_at,
                         synced_at |-> sync_time]
             IN  [s EXCEPT !.rows = Put(@, e.id, new),
                           !.index = IF HasText(new) THEN @ \cup {e.id} ELSE @,
                           !.fail = ~NoteFkOk(frows, e.folder_id)]
    ELSE s

RECURSIVE ApplyNoteBatch(_, _, _, _, _, _)
ApplyNoteBatch(s, frows, user, batch, sync_time, rmOk) ==
    IF batch = <<>> THEN s
    ELSE ApplyNoteBatch(ApplyNoteEntry(s, frows, user, Head(batch), sync_time, rmOk),
                        frows, user, Tail(batch), sync_time, rmOk)

\* The query without its synced_at clause.
NoteDelta_UpdatedAtOnly(rows, user, ckpt) ==
    {id \in DOMAIN rows :
        /\ rows[id].user_id = user
        /\ \/ ckpt = NoCkpt
           \/ rows[id].updated_at > ckpt}

\* The query of sync_notes: the owner's notes changed since last_sync_at.
NoteDelta(rows, user, ckpt) ==
    {id \in DOMAIN rows :
        /\ rows[id].user_id = user
        /\ \/ ckpt = NoCkpt
           \/ rows[id].updated_at > ckpt
           \/ rows[id].synced_at > ckpt}

\* The pass keeps what its session wrote although it did not commit.
Rollback_KeepsSession(committed, session) == session

\* A pass that raises before its commit has succeeded leaves the table as it
\* was committed: the session's writes are in a transaction that is dropped.
Rollback(committed, session) == committed

\* sync_notes when the database raises after the loop has processed the first
\* k entries (at the next SELECT, at flush or at commit).  Files the loop has
\* removed stay removed.  When the whole batch was processed the database may
\* have raised at commit, after the indexing tasks were added: indexed holds
\* the tasks the pass can have added by then.
FailedNotesPass(rows, frows, disk, user, batch, sync_time, rmOk, k) ==
    LET s == ApplyNoteBatch([rows |-> rows, files |-> disk, fail |-> FALSE, index |-> {}],
                            frows, user, SubSeq(batch, 1, k), sync_time, rmOk)
    IN  [ok |-> FALSE, rows |-> Rollback(rows, s.rows), files |-> s.files,
         delta |-> EmptyRows,
         indexed |-> IF k = Len(batch) /\ ~s.fail
                     THEN {id \in s.index : s.rows[id].content # ""}
                     ELSE {}]

\* sync_notes as a function of the committed state: the rows and the disk it
\* leaves, whether it committed, the rows it returns, and the notes it queued
\* for indexing.
SyncNotesPass(rows, frows, disk, user, batch, ckpt, sync_time, rmOk) ==
    LET s == ApplyNoteBatch([rows |-> rows, files |-> disk, fail |-> FALSE, index |-> {}],
                            frows, user, batch, sync_time, rmOk)
    IN  IF s.fail
        THEN [ok |-> FALSE, rows |-> Rollback(rows, s.rows), files |-> s.files,
              delta |-> EmptyRows, indexed |-> {}]
        ELSE [ok |-> TRUE, rows |-> s.rows, files |-> s.files,
              delta |-> Restrict(s.rows, NoteDelta(s.rows, user, ckpt)),
              indexed |-> {id \in s.index : s.rows[id].content # ""}]

(* -------------------------- the folders pass -------------------------- *)

FolderFound(rows, user, id) == id \in DOMAIN rows /\ rows[id].user_id = user

\* An older client state overwrites too.
FolderIsNewer_Always(e, ex) == TRUE

\* "if client_folder.updated_at > existing_folder.updated_at"
FolderIsNewer(e, ex) == e.updated_at > ex.updated_at

\* "if not client_folder.is_deleted": an unknown id becomes a row.
FolderCreates(e) == ~e.is_deleted

\* Every new folder belongs to the first user.
NewFolderRow_FirstUser(user, e) ==
    [user_id |-> "u1", name |-> e.name, is_deleted |-> e.is_deleted,
     updated_at |-> e.updated_at]

\* Folder(id=..., user_id=user.id, ...): the row of an unknown id.
NewFolderRow(user, e) ==
    [user_id |-> user, name |-> e.name, is_deleted |-> e.is_deleted,
     updated_at |-> e.updated_at]

\* One iteration of the loop of sync_folders over client_folders.
ApplyFolderEntry(s, user, e) ==
    IF s.fail THEN s
    ELSE IF FolderFound(s.rows, user, e.id) THEN
        LET ex == s.rows[e.id] IN
        IF FolderIsNewer(e, ex)
        THEN [s EXCEPT !.rows = Put(@, e.id, [ex EXCEPT !.name = e.name,
                                                        !.is_deleted = e.is_deleted,
                                                        !.updated_at = e.updated_at])]
        ELSE s
    ELSE IF FolderCreates(e) THEN
        IF e.id \in DOMAIN s.rows
        THEN [s EXCEPT !.fail = TRUE]
        ELSE [s EXCEPT !.rows = Put(@, e.id, NewFolderRow(user, e))]
    ELSE s

RECURSIVE ApplyFolderBatch(_, _, _)
ApplyFolderBatch(s, user, batch) ==
    IF batch = <<>> THEN s
    ELSE ApplyFolderBatch(ApplyFolderEntry(s, user, Head(batch)), user, Tail(batch))

\* The query passes tombstoned folders over.
FolderDelta_LiveOnly(rows, user, ckpt) ==
    {id \in DOMAIN rows :
        /\ rows[id].user_id = user
        /\ ~rows[id].is_deleted
        /\ \/ ckpt = NoCkpt
           \/ rows[id].updated_at > ckpt}

\* The query of sync_folders: the owner's folders changed since last_sync_at.
FolderDelta(rows, user, ckpt) ==
    {id \in DOMAIN rows :
        /\ rows[id].user_id = user
        /\ \/ ckpt = NoCkpt
           \/ rows[id].updated_at > ckpt}

\* sync_folders when the database raises after k entries.
FailedFoldersPass(rows, user, batch, k) ==
    LET s == ApplyFolderBatch([rows |-> rows, fail |-> FALSE], user, SubSeq(batch, 1, k))
    IN  [ok |-> FALSE, rows |-> Rollback(rows, s.rows), delta |-> EmptyRows]

SyncFoldersPass(rows, user, batch, ckpt) ==
    LET s == ApplyFolderBatch([rows |-> rows, fail |-> FALSE], user, batch)
    IN  IF s.fail
        THEN [ok |-> FALSE, rows |-> Rollback(rows, s.rows), delta |-> EmptyRows]
        ELSE [ok |-> TRUE, rows |-> s.rows,
              delta |-> Restrict(s.rows, FolderDelta(s.rows, user, ckpt))]


(* ------------------------------ requests ------------------------------ *)

ClientTimes == 1 .. MaxClientTime

\* The server time at which a behaviour starts.
StartTime == 2

\* The users whose clients call the server.
Callers == {"u1"}

\* NoteSyncItem
NoteEntries ==
    [id : NoteIds, title : {"new"}, content : {""}, folder_id : {NULL},
     audio_path : {NULL}, is_deleted : BOOLEAN, updated_at : ClientTimes]

\* FolderSyncItem
FolderEntries ==
    [id : FolderIds, name : {"Work"}, is_deleted : BOOLEAN, updated_at : ClientTimes]

SeqsUpTo(S, n) == UNION {[1 .. k -> S] : k \in 0 .. n}

\* SyncRequest.notes and SyncRequest.folders, of at most n entries together.
BatchesUpTo(n) ==
    {b \in SeqsUpTo(NoteEntries, n) \X SeqsUpTo(FolderEntries, n) :
        Len(b[1]) + Len(b[2]) <= n}

SyncBatches == BatchesUpTo(MaxBatch)

RetryBatches == BatchesUpTo(MaxRetryBatch)

\* SyncRequest.last_sync_at: absent, or the sync_timestamp of an earlier
\* response, a time from just before the behaviour starts up to the present.
Checkpoints == {NoCkpt} \cup (StartTime - 1 .. now)

\* Whether os.remove can be reached in a notes pass over nbatch: only then
\* does its outcome matter.
RemoveOutcomes(nbatch) ==
    IF \E k \in 1 .. Len(nbatch) : nbatch[k].is_deleted /\ nbatch[k].audio_path # NULL
    THEN BOOLEAN ELSE {TRUE}

\* The database works.
NoFault == [pass |-> "none", after |-> 0]

\* The storage errors of one sync request: none, or the database raises in
\* one of the two passes after that pass has processed `after` entries.
Faults(nbatch, fbatch) ==
    {NoFault}
        \cup {[pass |-> "notes", after |-> k] : k \in 0 .. Len(nbatch)}
        \cup {[pass |-> "folders", after |-> k] : k \in 0 .. Len(fbatch)}

\* A handler call as log keeps it.  Fields a handler does not use keep the
\* values of NoCall.
NoCall == [op |-> "none", user |-> NULL, at |-> 0, ok |-> TRUE,
           id |-> NULL, hard |-> FALSE, rm_ok |-> TRUE,
           ckpt |-> NoCkpt, nbatch |-> <<>>, fbatch |-> <<>>,
           notes_ok |-> TRUE, ndelta |-> EmptyRows, fdelta |-> EmptyRows,
           indexed |-> {}, sync_timestamp |-> NoCkpt, fault |-> NoFault,
           pre |-> [notes |-> EmptyRows, folders |-> EmptyRows, files |-> {}]]

\* The call record of a handler that runs now on the current store.
ThisCall(op, user) ==
    [NoCall EXCEPT !.op = op, !.user = user, !.at = now,
                   !.pre = [notes |-> notes, folders |-> folders, files |-> files]]

(* ------------------------- the initial database ----------------------- *)

\* Rows that earlier calls have left: a note's synced_at is a past reading of
\* the server clock, its updated_at whatever a client asserted.
SeedNoteRows ==
    [user_id : Callers, title : {"old"}, content : {""}, folder_id : {NULL} \cup FolderIds,
     audio_path : {NULL}, is_deleted : {FALSE}, updated_at : {0, 2}, synced_at : {0}]

SeedFolderRows ==
    [user_id : Callers, name : {"Trip"}, is_deleted : {FALSE}, updated_at : {0, 2}]

Stores(ids, rows) == UNION {[S -> rows] : S \in SUBSET ids}

\* A device that has not synced yet: it has no checkpoint to send.
IdleClient ==
    [pc |-> "idle", calls |-> 0, ckpt |-> NoCkpt, nbatch |-> <<>>, sync_time |-> 0,
     loaded |-> EmptyRows, pending |-> EmptyRows, failed |-> FALSE,
     ndelta |-> EmptyRows, fdelta |-> EmptyRows]

Init ==
    /\ now = StartTime
    /\ folders \in Stores(FolderIds, SeedFolderRows)
    /\ notes \in {n \in Stores(NoteIds, SeedNoteRows) :
                     \A id \in DOMAIN n : NoteFkOk(folders, n[id].folder_id)}
    /\ files = {}
    /\ log = <<>>
    /\ cl = [c \in Clients |-> IdleClient]
    /\ got = [c \in Clients |-> {}]
    /\ writer = [id \in NoteIds |-> NULL]
    /\ jobs = {}
    /\ docs = {}

(* ------------------------------ handlers ------------------------------ *)

\* The bound on the length of a behaviour.
CanCall == Len(log) < MaxOps

\* Every task that was added runs, whatever became of the request.
JobsQueued_WhenAdded(call, n) ==
    {[call |-> n, id |-> id, state |-> "queued"] : id \in call.indexed}

\* background_tasks.add_task: the jobs of call number n, one for each note
\* the notes pass found worth indexing.  FastAPI runs them after it has sent
\* the response the handler returned; a request that ends in an exception
\* runs none.
JobsQueued(call, n) ==
    IF call.ok
    THEN {[call |-> n, id |-> id, state |-> "queued"] : id \in call.indexed}
    ELSE {}

\* Every handler call reads the server clock, and the next call reads a later
\* value.
Called(call) ==
    /\ log' = Append(log, call)
    /\ now' = now + 1
    /\ jobs' = jobs \cup JobsQueued(call, Len(log) + 1)
    /\ UNCHANGED <<cl, got, writer, docs>>

\* The two passes are one transaction: a failing folders pass takes the notes
\* pass back.
NotesKept_OneTransaction(before, np, fp) == IF fp.ok THEN np.rows ELSE before

\* sync_notes has committed when sync_folders starts: the rows it left stay,
\* whatever the folders pass does.
NotesKept(before, np, fp) == np.rows

\* POST /sync: the notes pass, then the folders pass, then the response.  An
\* exception in the notes pass ends the request before the folders pass; each
\* pass commits on its own.
SyncDataWith(user, nbatch, fbatch, ckpt, rmOk, fault) ==
    LET np == IF fault.pass = "notes"
              THEN FailedNotesPass(notes, folders, files, user, nbatch, now, rmOk,
                                   fault.after)
              ELSE SyncNotesPass(notes, folders, files, user, nbatch, ckpt, now, rmOk)
        fp == IF fault.pass = "folders"
              THEN FailedFoldersPass(folders, user, fbatch, fault.after)
              ELSE SyncFoldersPass(folders, user, fbatch, ckpt)
        done == np.ok /\ fp.ok
    IN  /\ CanCall
        /\ notes' = NotesKept(notes, np, fp)
        /\ files' = np.files
        /\ folders' = IF np.ok THEN fp.rows ELSE folders
        /\ Called([ThisCall("sync", user) EXCEPT
                      !.ok = done, !.ckpt = ckpt, !.nbatch = nbatch, !.fbatch = fbatch,
                      !.notes_ok = np.ok,
                      !.ndelta = IF done THEN np.delta ELSE EmptyRows,
                      !.fdelta = IF done THEN fp.delta ELSE EmptyRows,
                      !.indexed = np.indexed,
                      !.sync_timestamp = IF done THEN now ELSE NoCkpt,
                      !.fault = fault, !.rm_ok = rmOk])

\* POST /sync on a database that works.
SyncData(user, nbatch, fbatch, ckpt, rmOk) ==
    SyncDataWith(user, nbatch, fbatch, ckpt, rmOk, NoFault)

\* POST /notes.  id is the id the client chose, or the fresh uuid; a used id
\* or an unknown folder makes the INSERT fail.
CreateNote(user, id, title, folder_id) ==
    /\ CanCall
    /\ id \notin DOMAIN notes
    /\ NoteFkOk(folders, folder_id)
    /\ notes' = Put(notes, id, [user_id |-> user, title |-> title, content |-> "",
                                folder_id |-> folder_id, audio_path |-> NULL,
                                is_deleted |-> FALSE, updated_at |-> now,
                                synced_at |-> now])
    /\ UNCHANGED <<folders, files>>
    /\ Called([ThisCall("create_note", user) EXCEPT !.id = id])

\* PUT /notes/{id}.  A field that is NULL was not provided.  The UPDATE sets
\* updated_at by the column's onupdate.
UpdateNote(user, id, title, folder_id) ==
    /\ CanCall
    /\ NoteFound(notes, user, id)
    /\ NoteFkOk(folders, folder_id)
    /\ notes' = [notes EXCEPT ![id] =
                    [@ EXCEPT !.title = IF title # NULL THEN title ELSE @,
                              !.folder_id = IF folder_id # NULL THEN folder_id ELSE @,
                              !.synced_at = now,
                              !.updated_at = now]]
    /\ UNCHANGED <<folders, files>>
    /\ Called([ThisCall("update_note", user) EXCEPT !.id = id])

\* The row stays when its attachment file could not be removed.
HardDeleted_NeedsFile(rows, id, disk, rmOk) ==
    IF rows[id].audio_path # NULL /\ ~(rows[id].audio_path \in disk /\ rmOk)
    THEN rows
    ELSE Drop(rows, id)

\* db.delete(note) after the attempt to remove the file: an absent file and an
\* OSError of os.remove are passed over.
HardDeleted(rows, id, disk, rmOk) == Drop(rows, id)

\* DELETE /notes/{id}
DeleteNote(user, id, hard, rmOk) ==
    /\ CanCall
    /\ NoteFound(notes, user, id)
    /\ IF hard
       THEN LET p == notes[id].audio_path
                removed == p # NULL /\ p \in files /\ rmOk
            IN  /\ files' = IF removed THEN files \ {p} ELSE files
                /\ notes' = HardDeleted(notes, id, files, rmOk)
       ELSE /\ notes' = [notes EXCEPT ![id] = [@ EXCEPT !.is_deleted = TRUE,
                                                        !.updated_at = now]]
            /\ UNCHANGED files
    /\ UNCHANGED folders
    /\ Called([ThisCall("delete_note", user) EXCEPT !.id = id, !.hard = hard,
                                                      !.rm_ok = rmOk])

\* POST /folders
CreateFolder(user, id, name) ==
    /\ CanCall
    /\ id \notin DOMAIN folders
    /\ folders' = Put(folders, id, [user_id |-> user, name |-> name,
                                    is_deleted |-> FALSE, updated_at |-> now])
    /\ UNCHANGED <<notes, files>>
    /\ Called([ThisCall("create_folder", user) EXCEPT !.id = id])

\* PUT /folders/{id}.  Without a changed column no UPDATE is sent and
\* updated_at stays.
UpdateFolder(user, id, name) ==
    /\ CanCall
    /\ FolderFound(folders, user, id)
    /\ folders' = [folders EXCEPT ![id] =
                      IF name # NULL /\ name # @.name
                      THEN [@ EXCEPT !.name = name, !.updated_at = now]
                      ELSE @]
    /\ UNCHANGED <<notes, files>>
    /\ Called([ThisCall("update_folder", user) EXCEPT !.id = id])

\* The cascade passes tombstoned notes over.
NotesToMove_LiveOnly(rows, user, folder_id) ==
    {n \in DOMAIN rows : /\ rows[n].folder_id = folder_id
                         /\ rows[n].user_id = user
                         /\ ~rows[n].is_deleted}

\* The notes that delete_folder moves to "All Notes".
NotesToMove(rows, user, folder_id) ==
    {n \in DOMAIN rows : rows[n].folder_id = folder_id /\ rows[n].user_id = user}

\* The notes whose folder_id the deletion of the folders row clears: every row
\* that references it (relationship Folder.notes, ON DELETE SET NULL).
NotesOfFolder(rows, folder_id) ==
    {n \in DOMAIN rows : rows[n].folder_id = folder_id}

\* DELETE /folders/{id}
DeleteFolder(user, id, hard) ==
    /\ CanCall
    /\ FolderFound(folders, user, id)
    /\ LET moved == NotesToMove(notes, user, id) \cup
                    (IF hard THEN NotesOfFolder(notes, id) ELSE {})
       IN  notes' = [n \in DOMAIN notes |->
                        IF n \in moved
                        THEN [notes[n] EXCEPT !.folder_id = NULL, !.updated_at = now]
                        ELSE notes[n]]
    /\ folders' = IF hard
                  THEN Drop(folders, id)
                  ELSE [folders EXCEPT ![id] = [@ EXCEPT !.is_deleted = TRUE,
                                                         !.updated_at = now]]
    /\ UNCHANGED files
    /\ Called([ThisCall("delete_folder", user) EXCEPT !.id = id, !.hard = hard])

(* ------------------------------ clients ------------------------------- *)
\* The requests the clients send, one action per endpoint.

PostSync ==
    /\ CanCall
    /\ \E u \in Callers, b \in SyncBatches, c \in Checkpoints :
           \E rmOk \in RemoveOutcomes(b[1]) : SyncData(u, b[1], b[2], c, rmOk)

PostNote ==
    /\ CanCall
    /\ \E u \in Callers, id \in NoteIds, f \in {NULL} \cup FolderIds :
           CreateNote(u, id, "new", f)

PutNote ==
    /\ CanCall
    /\ \E u \in Callers, id \in NoteIds, t \in {NULL, "new"}, f \in {NULL} \cup FolderIds :
           UpdateNote(u, id, t, f)

DeleteNoteCall ==
    /\ CanCall
    /\ \E u \in Callers, id \in NoteIds, hard \in BOOLEAN : DeleteNote(u, id, hard, TRUE)

PostFolder ==
    /\ CanCall
    /\ \E u \in Callers, id \in FolderIds : CreateFolder(u, id, "Work")

PutFolder ==
    /\ CanCall
    /\ \E u \in Callers, id \in FolderIds, nm \in {NULL, "Work"} : UpdateFolder(u, id, nm)

DeleteFolderCall ==
    /\ CanCall
    /\ \E u \in Callers, id \in FolderIds, hard \in BOOLEAN : DeleteFolder(u, id, hard)

Next ==
    \/ PostSync
    \/ PostNote
    \/ PutNote
    \/ DeleteNoteCall
    \/ PostFolder
    \/ PutFolder
    \/ DeleteFolderCall

Spec == Init /\ [][Next]_vars

(* --------------------- a client that sends again ---------------------- *)
\* A client that got no response sends its request again, unchanged.

PostSyncFirst ==
    /\ log = <<>>
    /\ \E u \in Callers, b \in RetryBatches, c \in Checkpoints :
           \E rmOk \in RemoveOutcomes(b[1]) : SyncData(u, b[1], b[2], c, rmOk)

PostSyncAgain ==
    /\ CanCall
    /\ log # <<>>
    /\ LET r == log[Len(log)]
       IN  \E rmOk \in RemoveOutcomes(r.nbatch) :
               SyncData(r.user, r.nbatch, r.fbatch, r.ckpt, rmOk)

NextRetry == PostSyncFirst \/ PostSyncAgain

SpecRetry == Init /\ [][NextRetry]_vars

(* --------------------------- two accounts ----------------------------- *)
\* The database holds rows of two users, and the clients of both sync.

OwnerNoteRows ==
    [user_id : Users, title : {"old"}, content : {""}, folder_id : {NULL} \cup FolderIds,
     audio_path : {NULL}, is_deleted : {FALSE}, updated_at : {0}, synced_at : {0}]

OwnerFolderRows ==
    [user_id : Users, name : {"Trip"}, is_deleted : {FALSE}, updated_at : {0}]

InitOwners ==
    /\ now = StartTime
    /\ folders \in Stores(FolderIds, OwnerFolderRows)
    /\ notes \in {n \in Stores(NoteIds, OwnerNoteRows) :
                     \A id \in DOMAIN n : NoteFkOk(folders, n[id].folder_id)}
    /\ files = {}
    /\ log = <<>>
    /\ cl = [c \in Clients |-> IdleClient]
    /\ got = [c \in Clients |-> {}]
    /\ writer = [id \in NoteIds |-> NULL]
    /\ jobs = {}
    /\ docs = {}

PostSyncOwners ==
    /\ CanCall
    /\ \E u \in Users, b \in SyncBatches, c \in {NoCkpt, StartTime - 1} :
           \E rmOk \in RemoveOutcomes(b[1]) : SyncData(u, b[1], b[2], c, rmOk)

NextOwners == PostSyncOwners

SpecOwners == InitOwners /\ [][NextOwners]_vars

\* The clients of both users also call the direct note and folder handlers.

PostSyncBoth ==
    /\ CanCall
    /\ \E u \in Users, b \in SyncBatches :
           \E rmOk \in RemoveOutcomes(b[1]) : SyncData(u, b[1], b[2], NoCkpt, rmOk)

PostNoteBoth ==
    /\ CanCall
    /\ \E u \in Users, id \in NoteIds, f \in {NULL} \cup FolderIds :
           CreateNote(u, id, "new", f)

PutNoteBoth ==
    /\ CanCall
    /\ \E u \in Users, id \in NoteIds, t \in {NULL, "new"}, f \in {NULL} \cup FolderIds :
           UpdateNote(u, id, t, f)

DeleteNoteBoth ==
    /\ CanCall
    /\ \E u \in Users, id \in NoteIds, hard \in BOOLEAN : DeleteNote(u, id, hard, TRUE)

PostFolderBoth ==
    /\ CanCall
    /\ \E u \in Users, id \in FolderIds : CreateFolder(u, id, "Work")

PutFolderBoth ==
    /\ CanCall
    /\ \E u \in Users, id \in FolderIds, nm \in {NULL, "Work"} : UpdateFolder(u, id, nm)

DeleteFolderBoth ==
    /\ CanCall
    /\ \E u \in Users, id \in FolderIds, hard \in BOOLEAN : DeleteFolder(u, id, hard)

NextOwnersApi ==
    \/ PostSyncBoth
    \/ PostNoteBoth
    \/ PutNoteBoth
    \/ DeleteNoteBoth
    \/ PostFolderBoth
    \/ PutFolderBoth
    \/ DeleteFolderBoth

SpecOwnersApi == InitOwners /\ [][NextOwnersApi]_vars

(* ------------------------- a failing database ------------------------ *)
\* The database may raise in a pass of a sync request; the client then sends
\* the request again.  The notes carry attachment references, and the disk may
\* or may not hold the file.

MediaNoteRows ==
    [user_id : Callers, title : {"old"}, content : {""}, folder_id : {NULL},
     audio_path : {NULL} \cup Paths, is_deleted : {FALSE}, updated_at : {0, 2},
     synced_at : {0}]

MediaEntries ==
    [id : {"n1"}, title : {"new"}, content : {""}, folder_id : {NULL},
     audio_path : {NULL} \cup Paths, is_deleted : BOOLEAN, updated_at : ClientTimes]

\* Requests of at most one note and one folder.
MediaBatches == SeqsUpTo(MediaEntries, 1) \X SeqsUpTo(FolderEntries, 1)

InitFault ==
    /\ now = StartTime
    /\ folders \in Stores(FolderIds, SeedFolderRows)
    /\ notes \in Stores({"n1"}, MediaNoteRows)
    /\ files \in SUBSET Paths
    /\ log = <<>>
    /\ cl = [c \in Clients |-> IdleClient]
    /\ got = [c \in Clients |-> {}]
    /\ writer = [id \in NoteIds |-> NULL]
    /\ jobs = {}
    /\ docs = {}

PostSyncFaulty ==
    /\ log = <<>>
    /\ \E u \in Callers, b \in MediaBatches :
           \E fault \in Faults(b[1], b[2]) :
               SyncDataWith(u, b[1], b[2], NoCkpt, TRUE, fault)

\* The request failed: the client sends it again.
PostSyncRetry ==
    /\ CanCall
    /\ log # <<>>
    /\ ~log[Len(log)].ok
    /\ LET r == log[Len(log)]
       IN  \E fault \in Faults(r.nbatch, r.fbatch) :
               SyncDataWith(r.user, r.nbatch, r.fbatch, r.ckpt, TRUE, fault)

NextFault == PostSyncFaulty \/ PostSyncRetry

SpecFault == InitFault /\ [][NextFault]_vars

(* ------------------------- malformed requests ------------------------- *)
\* The body of a request as the client sent it: a required field of a note
\* entry may be missing.  FastAPI builds the SyncRequest parameter of
\* sync_data from the body before it calls the handler, and answers 422 when
\* an entry does not validate.

MissingId == "missing"

MissingTime == -2

RawNoteEntries ==
    [id : NoteIds \cup {MissingId}, title : {"new"}, content : {""}, folder_id : {NULL},
     audio_path : {NULL}, is_deleted : BOOLEAN,
     updated_at : ClientTimes \cup {MissingTime}]

\* NoteSyncItem: id and updated_at have no default.
WellFormedNote(e) == e.id # MissingId /\ e.updated_at # MissingTime

\* SyncRequest validates when every entry of its lists does.
ValidRequest(nbatch) == \A k \in 1 .. Len(nbatch) : WellFormedNote(nbatch[k])

\* POST /sync with an unvalidated body.
SyncDataRaw(user, nbatch, ckpt) ==
    IF ValidRequest(nbatch)
    THEN SyncData(user, nbatch, <<>>, ckpt, TRUE)
    ELSE /\ CanCall
         /\ UNCHANGED <<notes, folders, files>>
         /\ Called([ThisCall("sync", user) EXCEPT
                       !.ok = FALSE, !.notes_ok = FALSE, !.ckpt = ckpt, !.nbatch = nbatch])

PostSyncRaw ==
    /\ log = <<>>
    /\ \E u \in Callers, b \in SeqsUpTo(RawNoteEntries, MaxRetryBatch) :
           SyncDataRaw(u, b, NoCkpt)

NextRaw == PostSyncRaw

SpecRaw == Init /\ [][NextRaw]_vars

(* ------------------------ a client clock ahead ------------------------ *)
\* The database holds rows whose updated_at a client asserted whose clock is
\* ahead of the server's: the value is later than the server's present time.

AheadNoteRows ==
    [user_id : Callers, title : {"old"}, content : {""}, folder_id : {NULL} \cup FolderIds,
     audio_path : {NULL}, is_deleted : {FALSE}, updated_at : {0, MaxClientTime},
     synced_at : {0}]

AheadFolderRows ==
    [user_id : Callers, name : {"Trip"}, is_deleted : {FALSE},
     updated_at : {0, MaxClientTime}]

InitAhead ==
    /\ now = StartTime
    /\ folders \in Stores(FolderIds, AheadFolderRows)
    /\ notes \in {n \in Stores(NoteIds, AheadNoteRows) :
                     \A id \in DOMAIN n : NoteFkOk(folders, n[id].folder_id)}
    /\ files = {}
    /\ log = <<>>
    /\ cl = [c \in Clients |-> IdleClient]
    /\ got = [c \in Clients |-> {}]
    /\ writer = [id \in NoteIds |-> NULL]
    /\ jobs = {}
    /\ docs = {}

SpecAhead == InitAhead /\ [][Next]_vars

(* ---------------------------- attachments ----------------------------- *)
\* Notes with attachment references are synced and deleted through the
\* direct API; the disk may or may not hold the file, and os.remove may fail.

DeleteMediaNote ==
    /\ CanCall
    /\ \E u \in Callers, id \in NoteIds, hard \in BOOLEAN, rmOk \in BOOLEAN :
           DeleteNote(u, id, hard, rmOk)

PostSyncMedia ==
    /\ CanCall
    /\ \E u \in Callers, b \in SeqsUpTo(MediaEntries, 1) :
           \E rmOk \in RemoveOutcomes(b) : SyncData(u, b, <<>>, NoCkpt, rmOk)

NextMedia == DeleteMediaNote \/ PostSyncMedia

SpecMedia == InitFault /\ [][NextMedia]_vars

(* ---------------------- a note in a new folder ------------------------ *)
\* One sync request whose note may reference a folder, sent again by the
\* client afterwards.

LinkedNoteEntries ==
    [id : NoteIds, title : {"new"}, content : {""}, folder_id : {NULL} \cup FolderIds,
     audio_path : {NULL}, is_deleted : BOOLEAN, updated_at : ClientTimes]

PostSyncLinked ==
    /\ log = <<>>
    /\ \E u \in Callers, nb \in SeqsUpTo(LinkedNoteEntries, 1),
          fb \in SeqsUpTo(FolderEntries, 1) :
           SyncData(u, nb, fb, NoCkpt, TRUE)

NextLinked == PostSyncLinked \/ PostSyncAgain

SpecLinked == Init /\ [][NextLinked]_vars

(* -------------------------- batches of two ---------------------------- *)
\* One sync request with two entries of one kind, for two different ids.  The
\* notes carry attachment references, and the disk may or may not hold the
\* file.

OrderFolderIds == {"f1", "f2"}

PairNoteEntries ==
    [id : NoteIds, title : {"new"}, content : {""}, folder_id : {NULL},
     audio_path : {NULL} \cup Paths, is_deleted : BOOLEAN, updated_at : ClientTimes]

PairFolderEntries ==
    [id : OrderFolderIds, name : {"Work"}, is_deleted : BOOLEAN, updated_at : ClientTimes]

\* The batches of two entries of S with different ids.
DistinctPairs(S) == {b \in [1 .. 2 -> S] : b[1].id # b[2].id}

InitOrder ==
    /\ now = StartTime
    /\ folders \in Stores(OrderFolderIds, SeedFolderRows)
    /\ notes \in Stores(NoteIds, MediaNoteRows)
    /\ files \in SUBSET Paths
    /\ log = <<>>
    /\ cl = [c \in Clients |-> IdleClient]
    /\ got = [c \in Clients |-> {}]
    /\ writer = [id \in NoteIds |-> NULL]
    /\ jobs = {}
    /\ docs = {}

PostNotePair ==
    /\ log = <<>>
    /\ \E u \in Callers, b \in DistinctPairs(PairNoteEntries) :
           SyncData(u, b, <<>>, NoCkpt, TRUE)

PostFolderPair ==
    /\ log = <<>>
    /\ \E u \in Callers, b \in DistinctPairs(PairFolderEntries) :
           SyncData(u, <<>>, b, NoCkpt, TRUE)

NextOrder == PostNotePair \/ PostFolderPair

SpecOrder == InitOrder /\ [][NextOrder]_vars

(* ----------------------------- indexing ------------------------------- *)
\* Notes with and without title and content are synced, and the indexing
\* jobs the requests queue run afterwards; a job may raise.

TextEntries ==
    [id : NoteIds, title : {"", "new"}, content : {"", "text"}, folder_id : {NULL},
     audio_path : {NULL}, is_deleted : BOOLEAN, updated_at : ClientTimes]

PostSyncText ==
    /\ CanCall
    /\ \E u \in Callers, b \in SeqsUpTo(TextEntries, MaxBatch) :
           SyncData(u, b, <<>>, NoCkpt, TRUE)

\* A failing job undoes the note writes of its request.
NotesAfterJobError_Undone(rows, call) == call.pre.notes

\* sync_diary_to_vector_db logs its exception and raises it again, into the
\* background task of a response that has been sent, after sync_notes has
\* committed: the rows stay.
NotesAfterJobError(rows, call) == rows

\* One queued job runs: rag_service.sync_diary_to_vector_db inserts the
\* note's text, or raises.  After an exception the other tasks of the same
\* response do not run.
RunJob(j, ok) ==
    /\ j \in jobs
    /\ j.state = "queued"
    /\ IF ok
       THEN /\ docs' = docs \cup {j.id}
            /\ jobs' = jobs \ {j}
            /\ UNCHANGED notes
       ELSE /\ jobs' = {IF k = j THEN [k EXCEPT !.state = "failed"] ELSE k :
                           k \in {x \in jobs : x.call # j.call \/ x = j}}
            /\ notes' = NotesAfterJobError(notes, log[j.call])
            /\ UNCHANGED docs
    /\ UNCHANGED <<now, folders, files, log, cl, got, writer>>

IndexJob == \E j \in jobs, ok \in BOOLEAN : RunJob(j, ok)

NextIndex == PostSyncText \/ IndexJob

SpecIndex == Init /\ [][NextIndex]_vars

\* The same on a database that may raise in the notes pass or in the folders
\* pass of the request.
PostSyncTextFaulty ==
    /\ log = <<>>
    /\ \E u \in Callers, b \in SeqsUpTo(TextEntries, MaxBatch) :
           \E fault \in Faults(b, <<>>) :
               SyncDataWith(u, b, <<>>, NoCkpt, TRUE, fault)

NextIndexFault == PostSyncTextFaulty \/ IndexJob

SpecIndexFault == Init /\ [][NextIndexFault]_vars

(* ------------------------ two devices at once ------------------------- *)
\* Two devices of one account sync at the same time.  Each request runs in
\* its own database session under READ COMMITTED: the loop of sync_notes
\* reads the committed rows and changes the session's objects, flush writes
\* the changed columns, the query reads, commit publishes.  A device sends
\* the sync_timestamp of its last response as its next last_sync_at.

ConcUser == "u1"

\* The requests of the devices: at most one state, of the note n1.
ConcBatches == {<<>>} \cup {<<e>> : e \in {x \in NoteEntries : x.id = "n1"}}

\* The UPDATE of one row at flush: it sets the columns whose value differs
\* from the value the session loaded, and leaves the others as they are in
\* the database by then.
FlushRow(db, old, new) ==
    [col \in DOMAIN db |-> IF new[col] # old[col] THEN new[col] ELSE db[col]]

\* The rows the session inserts or updates at flush.
Dirty(loaded, pending) ==
    {id \in DOMAIN pending : id \notin DOMAIN loaded \/ pending[id] # loaded[id]}

\* The INSERT of a row that another session has inserted since, or the UPDATE
\* of a row that is gone, raises.
FlushFails(db, loaded, pending) ==
    \E id \in Dirty(loaded, pending) :
        (id \in DOMAIN loaded) # (id \in DOMAIN db)

Flush(db, loaded, pending) ==
    [id \in (DOMAIN db) \cup Dirty(loaded, pending) |->
        IF id \notin Dirty(loaded, pending) THEN db[id]
        ELSE IF id \in DOMAIN loaded THEN FlushRow(db[id], loaded[id], pending[id])
        ELSE pending[id]]

\* sync_notes up to its flush: sync_time is read, and the loop looks every
\* entry up and changes the session.
SyncNotesRead(c, nbatch) ==
    LET s == ApplyNoteBatch([rows |-> notes, files |-> files, fail |-> FALSE, index |-> {}],
                            folders, ConcUser, nbatch, now, TRUE)
    IN  /\ cl[c].pc = "idle"
        /\ cl[c].calls < MaxSyncs
        /\ cl' = [cl EXCEPT ![c] = [@ EXCEPT !.pc = "read",
                                             !.calls = @ + 1,
                                             !.nbatch = nbatch,
                                             !.sync_time = now,
                                             !.loaded = notes,
                                             !.pending = s.rows,
                                             !.failed = s.fail]]
        /\ files' = s.files
        /\ now' = now + 1
        /\ UNCHANGED <<notes, folders, log, got, writer, jobs, docs>>

\* sync_notes from its flush on: flush, the query, commit.  An exception ends
\* the request with an error and nothing written.
SyncNotesCommit(c) ==
    LET me == cl[c]
        fails == me.failed \/ FlushFails(notes, me.loaded, me.pending)
        after == Flush(notes, me.loaded, me.pending)
        wrote == Dirty(me.loaded, me.pending)
    IN  /\ me.pc = "read"
        /\ IF fails
           THEN /\ cl' = [cl EXCEPT ![c] = [@ EXCEPT !.pc = "idle"]]
                /\ UNCHANGED <<notes, got, writer>>
           ELSE /\ notes' = after
                /\ cl' = [cl EXCEPT ![c] =
                            [@ EXCEPT !.pc = "committed",
                                      !.ndelta = Restrict(after,
                                                    NoteDelta(after, ConcUser, me.ckpt))]]
                /\ got' = [d \in Clients |->
                             IF d = c THEN got[d] \cup wrote ELSE got[d] \ wrote]
                /\ writer' = [id \in NoteIds |-> IF id \in wrote THEN c ELSE writer[id]]
        /\ UNCHANGED <<now, folders, files, log, jobs, docs>>

\* The rest of sync_data: the folders pass (these devices send no folders)
\* and the response with its sync_timestamp, which the device keeps as its
\* checkpoint together with the notes returned.
SyncRespond(c) ==
    LET me == cl[c]
        fp == SyncFoldersPass(folders, ConcUser, <<>>, me.ckpt)
    IN  /\ me.pc = "committed"
        /\ folders' = fp.rows
        /\ cl' = [cl EXCEPT ![c] = [@ EXCEPT !.pc = "idle",
                                             !.fdelta = fp.delta,
                                             !.ckpt = now]]
        /\ got' = [got EXCEPT ![c] =
                      @ \cup {id \in DOMAIN me.ndelta :
                                 id \in DOMAIN notes /\ notes[id] = me.ndelta[id]}]
        /\ now' = now + 1
        /\ UNCHANGED <<notes, files, log, writer, jobs, docs>>

DeviceSends == \E c \in Clients, b \in ConcBatches : SyncNotesRead(c, b)

DeviceCommits == \E c \in Clients : SyncNotesCommit(c)

DeviceReceives == \E c \in Clients : SyncRespond(c)

NextConc == DeviceSends \/ DeviceCommits \/ DeviceReceives

\* The account holds at most the note n1 and no folder.
InitConc == Init /\ folders = EmptyRows /\ DOMAIN notes \subseteq {"n1"}

SpecConc == InitConc /\ [][NextConc]_vars

(* ------------------------- reading the log ---------------------------- *)

Calls == 1 .. Len(log)

StoreNow == [notes |-> notes, folders |-> folders, files |-> files]

\* The committed store that call i left.
Post(i) == IF i < Len(log) THEN log[i + 1].pre ELSE StoreNow


\* Call i is a sync request with one entry, a note / a folder.
OneNote(i) == log[i].op = "sync" /\ Len(log[i].nbatch) = 1 /\ Len(log[i].fbatch) = 0
OneFolder(i) == log[i].op = "sync" /\ Len(log[i].nbatch) = 0 /\ Len(log[i].fbatch) = 1

\* The stored note row holds the client state e (a tombstone may have had its
\* attachment reference cleared).
NoteIs(row, e) ==
    /\ row.title = e.title
    /\ row.content = e.content
    /\ row.folder_id = e.folder_id
    /\ row.is_deleted = e.is_deleted
    /\ row.updated_at = e.updated_at
    /\ row.audio_path = e.audio_path \/ (e.is_deleted /\ row.audio_path = NULL)

\* The stored folder row holds the client state e.
FolderIs(row, e) ==
    /\ row.name = e.name
    /\ row.is_deleted = e.is_deleted
    /\ row.updated_at = e.updated_at

(* ------------------------------- C1 ----------------------------------- *)

\* Calls i and i+1 are two successful sync requests of one user, each with one
\* note entry, for the same id and with different updated_at.
NotePair(i) ==
    /\ i + 1 <= Len(log)
    /\ OneNote(i) /\ OneNote(i + 1)
    /\ log[i].ok /\ log[i + 1].ok
    /\ log[i].user = log[i + 1].user
    /\ log[i].nbatch[1].id = log[i + 1].nbatch[1].id
    /\ log[i].nbatch[1].updated_at # log[i + 1].nbatch[1].updated_at

FolderPair(i) ==
    /\ i + 1 <= Len(log)
    /\ OneFolder(i) /\ OneFolder(i + 1)
    /\ log[i].ok /\ log[i + 1].ok
    /\ log[i].user = log[i + 1].user
    /\ log[i].fbatch[1].id = log[i + 1].fbatch[1].id
    /\ log[i].fbatch[1].updated_at # log[i + 1].fbatch[1].updated_at

\* The newer of two client states.
Newer(e1, e2) == IF e1.updated_at > e2.updated_at THEN e1 ELSE e2

\* After the pair of calls the note holds the state with the greatest
\* updated_at among the server's earlier state and the two client states.
\* ties tells whether a tie between the server's state and the newer client
\* state is decided too (for the server).
NoteLww(i, ties) ==
    LET e1 == log[i].nbatch[1]
        e2 == log[i + 1].nbatch[1]
        w == Newer(e1, e2)
        u == log[i].user
        pre == log[i].pre.notes
        post == Post(i + 1).notes
        had == NoteFound(pre, u, w.id)
    IN  IF had /\ pre[w.id].updated_at > w.updated_at
        THEN NoteFound(post, u, w.id) /\ post[w.id] = pre[w.id]
        ELSE IF had /\ pre[w.id].updated_at = w.updated_at
        THEN ties => NoteFound(post, u, w.id) /\ post[w.id] = pre[w.id]
        ELSE NoteFound(post, u, w.id) /\ NoteIs(post[w.id], w)

FolderLww(i, ties) ==
    LET e1 == log[i].fbatch[1]
        e2 == log[i + 1].fbatch[1]
        w == Newer(e1, e2)
        u == log[i].user
        pre == log[i].pre.folders
        post == Post(i + 1).folders
        had == FolderFound(pre, u, w.id)
    IN  IF had /\ pre[w.id].updated_at > w.updated_at
        THEN FolderFound(post, u, w.id) /\ post[w.id] = pre[w.id]
        ELSE IF had /\ pre[w.id].updated_at = w.updated_at
        THEN ties => FolderFound(post, u, w.id) /\ post[w.id] = pre[w.id]
        ELSE FolderFound(post, u, w.id) /\ FolderIs(post[w.id], w)

\* The id was unknown for the owner before the pair and the newer of the two
\* client states is a tombstone.
NoteTombstoneOnUnknown(i) ==
    LET w == Newer(log[i].nbatch[1], log[i + 1].nbatch[1])
    IN  w.is_deleted /\ ~NoteFound(log[i].pre.notes, log[i].user, w.id)

FolderTombstoneOnUnknown(i) ==
    LET w == Newer(log[i].fbatch[1], log[i + 1].fbatch[1])
    IN  w.is_deleted /\ ~FolderFound(log[i].pre.folders, log[i].user, w.id)

EntriesFor(batch, id) == {k \in 1 .. Len(batch) : batch[k].id = id}

\* Sync call i carries entries for note id, the id exists for the owner, and
\* none of these entries is newer than the stored row.
NoteNotNewer(i, id) ==
    /\ log[i].op = "sync"
    /\ EntriesFor(log[i].nbatch, id) # {}
    /\ NoteFound(log[i].pre.notes, log[i].user, id)
    /\ \A k \in EntriesFor(log[i].nbatch, id) :
           log[i].nbatch[k].updated_at <= log[i].pre.notes[id].updated_at

FolderNotNewer(i, id) ==
    /\ log[i].op = "sync"
    /\ EntriesFor(log[i].fbatch, id) # {}
    /\ FolderFound(log[i].pre.folders, log[i].user, id)
    /\ \A k \in EntriesFor(log[i].fbatch, id) :
           log[i].fbatch[k].updated_at <= log[i].pre.folders[id].updated_at

\* C2: a sync entry whose id exists for the owner and whose updated_at is not
\* greater than the stored one (equal included) changes no field of the
\* stored record: payload, is_deleted, updated_at and synced_at stay.
Thm_C2_NotNewerChangesNothing ==
    \A i \in Calls :
        /\ \A id \in NoteIds :
               NoteNotNewer(i, id) =>
                   /\ id \in DOMAIN Post(i).notes
                   /\ Post(i).notes[id] = log[i].pre.notes[id]
        /\ \A id \in FolderIds :
               FolderNotNewer(i, id) =>
                   /\ id \in DOMAIN Post(i).folders
                   /\ Post(i).folders[id] = log[i].pre.folders[id]

\* C2 witness: a tombstone with the stored updated_at arrived for a live note
\* that differs from it in title, and the note is as it was.
Wit_C2_TieKeepsServerState ==
    \E i \in Calls :
        /\ OneNote(i)
        /\ NoteNotNewer(i, log[i].nbatch[1].id)
        /\ log[i].nbatch[1].updated_at
               = log[i].pre.notes[log[i].nbatch[1].id].updated_at
        /\ log[i].nbatch[1].is_deleted
        /\ log[i].nbatch[1].title # log[i].pre.notes[log[i].nbatch[1].id].title
        /\ ~Post(i).notes[log[i].nbatch[1].id].is_deleted

(* ------------------------------- C3 ----------------------------------- *)

\* Sync call i carries a tombstone for id and no live entry for it.
OnlyTombstones(batch, id) ==
    /\ EntriesFor(batch, id) # {}
    /\ \A k \in EntriesFor(batch, id) : batch[k].is_deleted

\* C3: a sync entry with is_deleted = true whose id is unknown for the owner
\* creates no row: after the call the owner has no record with that id, and
\* the returned delta does not contain the id.
Thm_C3_TombstoneOfUnknownIdCreatesNoRow ==
    \A i \in Calls :
        log[i].op = "sync" =>
            /\ \A id \in NoteIds :
                   (OnlyTombstones(log[i].nbatch, id)
                        /\ ~NoteFound(log[i].pre.notes, log[i].user, id))
                   => /\ ~NoteFound(Post(i).notes, log[i].user, id)
                      /\ id \notin DOMAIN log[i].ndelta
            /\ \A id \in FolderIds :
                   (OnlyTombstones(log[i].fbatch, id)
                        /\ ~FolderFound(log[i].pre.folders, log[i].user, id))
                   => /\ ~FolderFound(Post(i).folders, log[i].user, id)
                      /\ id \notin DOMAIN log[i].fdelta

\* C3 witness: a successful sync call without checkpoint carried a folder
\* tombstone for an id the owner did not have.
Wit_C3_TombstoneDropped ==
    \E i \in Calls :
        /\ OneFolder(i)
        /\ log[i].ok
        /\ log[i].ckpt = NoCkpt
        /\ log[i].fbatch[1].is_deleted
        /\ ~FolderFound(log[i].pre.folders, log[i].user, log[i].fbatch[1].id)

(* ------------------------------- C4 ----------------------------------- *)

\* Calls i and i+1 are sync requests with the same user, batches and
\* checkpoint.
SameRequestTwice(i) ==
    /\ i + 1 <= Len(log)
    /\ log[i].op = "sync" /\ log[i + 1].op = "sync"
    /\ log[i].user = log[i + 1].user
    /\ log[i].nbatch = log[i + 1].nbatch
    /\ log[i].fbatch = log[i + 1].fbatch
    /\ log[i].ckpt = log[i + 1].ckpt

\* C4: reconcile run twice in sequence with the identical batch and
\* checkpoint leaves the store after the second call identical to the store
\* after the first (synced_at included), and the second call returns every
\* record the first returned.
C4_SyncTwiceIsIdempotent ==
    \A i \in Calls :
        SameRequestTwice(i) =>
            /\ Post(i + 1).notes = Post(i).notes
            /\ Post(i + 1).folders = Post(i).folders
            /\ DOMAIN log[i].ndelta \subseteq DOMAIN log[i + 1].ndelta
            /\ DOMAIN log[i].fdelta \subseteq DOMAIN log[i + 1].fdelta

(* ------------------------------- C5 ----------------------------------- *)

\* Call i created the note id or changed a field of it.
NoteMutated(i, id) ==
    /\ id \in DOMAIN Post(i).notes
    /\ id \in DOMAIN log[i].pre.notes => Post(i).notes[id] # log[i].pre.notes[id]

\* Call j is a successful sync call with a checkpoint earlier than the time T
\* at which call i ran.
LaterSyncBefore(i, j) ==
    /\ i < j
    /\ log[j].op = "sync"
    /\ log[j].ok
    /\ log[j].ckpt # NoCkpt
    /\ log[j].ckpt < log[i].at

\* C5: after a mutation of an owner's note at server time T (accepted by
\* reconcile, direct create, update or soft delete, or the cascade of a folder
\* deletion), every later sync call of the owner with checkpoint < T returns
\* the note, as long as the note still exists.
Thm_C5_NoteCheckpointComplete ==
    \A i \in Calls, j \in Calls :
        LaterSyncBefore(i, j) =>
            \A id \in NoteIds :
                (/\ NoteMutated(i, id)
                 /\ Post(i).notes[id].user_id = log[j].user
                 /\ NoteFound(Post(j).notes, log[j].user, id))
                => id \in DOMAIN log[j].ndelta

\* C5 witness: a folder deletion moved a note whose updated_at and synced_at
\* were both older than the checkpoint of the sync call that followed, and
\* that call returned the note.
Wit_C5_CascadeReturned ==
    \E i \in Calls, j \in Calls, id \in NoteIds :
        /\ LaterSyncBefore(i, j)
        /\ log[i].op = "delete_folder"
        /\ NoteMutated(i, id)
        /\ log[i].pre.notes[id].updated_at < log[j].ckpt
        /\ log[i].pre.notes[id].synced_at < log[j].ckpt
        /\ log[j].nbatch = <<>>
        /\ id \in DOMAIN log[j].ndelta

(* ------------------------------- C6 ----------------------------------- *)

\* Call i created the folder id or changed a field of it.
FolderMutated(i, id) ==
    /\ id \in DOMAIN Post(i).folders
    /\ id \in DOMAIN log[i].pre.folders => Post(i).folders[id] # log[i].pre.folders[id]

\* C6: after a folder state is accepted by reconcile or the folder is mutated
\* through the direct API at server time T, every later sync call of the owner
\* with checkpoint < T returns the folder, whatever updated_at the client
\* asserted.
C6_FolderCheckpointComplete ==
    \A i \in Calls, j \in Calls :
        LaterSyncBefore(i, j) =>
            \A id \in FolderIds :
                (/\ FolderMutated(i, id)
                 /\ Post(i).folders[id].user_id = log[j].user
                 /\ FolderFound(Post(j).folders, log[j].user, id))
                => id \in DOMAIN log[j].fdelta

(* ------------------------------- C7 ----------------------------------- *)

\* Device c's first sync request has committed and carried a state of note
\* id that was newer than the row the request found.
FirstSyncWon(c, id) ==
    /\ cl[c].calls = 1
    /\ cl[c].pc \in {"committed", "idle"}
    /\ ~cl[c].failed
    /\ Len(cl[c].nbatch) = 1
    /\ cl[c].nbatch[1].id = id
    /\ NoteFound(cl[c].loaded, ConcUser, id)
    /\ cl[c].nbatch[1].updated_at > cl[c].loaded[id].updated_at
    /\ cl[c].pending # cl[c].loaded

\* C7: two sync calls of one owner that run concurrently and both carry a
\* state for the same existing record id, each newer than the server state,
\* converge: once both have committed, the stored record holds the state with
\* the greater updated_at, whichever call commits last.
C7_ConcurrentSyncsConverge ==
    \A a, b \in Clients :
        \A id \in DOMAIN notes :
            /\ a # b
            /\ FirstSyncWon(a, id) /\ FirstSyncWon(b, id)
            /\ cl[a].nbatch[1].updated_at > cl[b].nbatch[1].updated_at
            => NoteIs(notes[id], cl[a].nbatch[1])

(* ------------------------------- C8 ----------------------------------- *)

\* C8: with two clients of one owner interleaving sync calls, each sending
\* the sync_timestamp of its previous response as its next checkpoint, every
\* record state committed by one client's sync call is returned to the other
\* client by some later sync call of that client.  A device between two
\* requests either holds the committed state of a note another device wrote,
\* or its next request, with the checkpoint it now has, returns that note.
C8_NoCommittedChangeSkipped ==
    \A c \in Clients :
        \A id \in DOMAIN notes :
            /\ cl[c].pc = "idle"
            /\ cl[c].calls < MaxSyncs
            /\ writer[id] \in Clients \ {c}
            /\ id \notin got[c]
            => id \in NoteDelta(notes, ConcUser, cl[c].ckpt)

(* ------------------------------- C9 ----------------------------------- *)

\* The notes of user that reference folder_id in a store.
NotesIn(store, user, folder_id) ==
    {n \in DOMAIN store.notes : /\ store.notes[n].user_id = user
                                /\ store.notes[n].folder_id = folder_id}

\* C9: DELETE /folders/F, soft or hard, sets folder_id to null on every note
\* of the owner that references F, tombstoned notes included, in the commit
\* that deletes F: the store it leaves has F deleted and no note of the owner
\* referencing F.
Thm_C9_FolderDeleteCascade ==
    \A i \in Calls :
        log[i].op = "delete_folder" =>
            /\ \A n \in NotesIn(log[i].pre, log[i].user, log[i].id) :
                   n \in DOMAIN Post(i).notes /\ Post(i).notes[n].folder_id = NULL
            /\ NotesIn(Post(i), log[i].user, log[i].id) = {}
            /\ IF log[i].hard
               THEN log[i].id \notin DOMAIN Post(i).folders
               ELSE Post(i).folders[log[i].id].is_deleted

\* C9 witness: a folder was deleted that a live note and a tombstoned note of
\* the owner referenced.
Wit_C9_LiveAndTombstonedMoved ==
    \E i \in Calls, a \in NoteIds, b \in NoteIds :
        /\ log[i].op = "delete_folder"
        /\ {a, b} \subseteq NotesIn(log[i].pre, log[i].user, log[i].id)
        /\ ~log[i].pre.notes[a].is_deleted
        /\ log[i].pre.notes[b].is_deleted
        /\ notes[a].folder_id = NULL
        /\ notes[b].folder_id = NULL

(* ------------------------------- C10 ---------------------------------- *)

\* Sync call i accepted a tombstone for the live folder id.
SyncDeletedFolder(i, id) ==
    /\ log[i].op = "sync"
    /\ log[i].ok
    /\ FolderFound(log[i].pre.folders, log[i].user, id)
    /\ ~log[i].pre.folders[id].is_deleted
    /\ FolderFound(Post(i).folders, log[i].user, id)
    /\ Post(i).folders[id].is_deleted

\* C10: when reconcile accepts a tombstone for an existing folder F, after the
\* call no note of the owner references F.
C10_SyncFolderDeleteMovesNotes ==
    \A i \in Calls, id \in FolderIds :
        SyncDeletedFolder(i, id) => NotesIn(Post(i), log[i].user, id) = {}

(* ------------------------------- C11 ---------------------------------- *)

\* The rows of a table that belong to other users than user.
RowsOfOthers(rows, user) ==
    Restrict(rows, {id \in DOMAIN rows : rows[id].user_id # user})

\* C11: a reconcile call for owner X returns only records whose owner is X,
\* and it modifies, creates and deletes no record of another user, whatever
\* the batch holds (ids that exist under another user included).
Thm_C11_OwnerScoping ==
    \A i \in Calls :
        log[i].op = "sync" =>
            /\ \A id \in DOMAIN log[i].ndelta : log[i].ndelta[id].user_id = log[i].user
            /\ \A id \in DOMAIN log[i].fdelta : log[i].fdelta[id].user_id = log[i].user
            /\ RowsOfOthers(Post(i).notes, log[i].user)
                   = RowsOfOthers(log[i].pre.notes, log[i].user)
            /\ RowsOfOthers(Post(i).folders, log[i].user)
                   = RowsOfOthers(log[i].pre.folders, log[i].user)

\* C11 witness: a user's batch carried a newer tombstone for an id that
\* exists under the other user; the call succeeded and returned the caller's
\* own note.
Wit_C11_ForeignIdInBatch ==
    \E i \in Calls :
        /\ log[i].op = "sync"
        /\ log[i].ok
        /\ log[i].ndelta # EmptyRows
        /\ Len(log[i].nbatch) = 1
        /\ log[i].nbatch[1].is_deleted
        /\ log[i].nbatch[1].id \in DOMAIN log[i].pre.notes
        /\ log[i].pre.notes[log[i].nbatch[1].id].user_id # log[i].user
        /\ log[i].nbatch[1].updated_at > log[i].pre.notes[log[i].nbatch[1].id].updated_at
        /\ \E id \in DOMAIN log[i].pre.notes : log[i].pre.notes[id].user_id = log[i].user

(* ------------------------------- C12 ---------------------------------- *)

\* Sync call i of owner X carries a live state of a note id that a record of
\* another owner uses.
CarriesForeignNoteId(i, k) ==
    /\ log[i].op = "sync"
    /\ k \in 1 .. Len(log[i].nbatch)
    /\ ~log[i].nbatch[k].is_deleted
    /\ log[i].nbatch[k].id \in DOMAIN log[i].pre.notes
    /\ log[i].pre.notes[log[i].nbatch[k].id].user_id # log[i].user

\* C12: when owner X's batch carries a non-deleted state whose id is used by
\* a record of another owner Y, the call succeeds (and creates a record of
\* X's with that id), and Y's record is left untouched.
C12_ForeignIdCoexists ==
    \A i \in Calls :
        \A k \in 1 .. Len(log[i].nbatch) :
            CarriesForeignNoteId(i, k) =>
                /\ log[i].ok
                /\ RowsOfOthers(Post(i).notes, log[i].user)
                       = RowsOfOthers(log[i].pre.notes, log[i].user)

(* ------------------------------- C13 ---------------------------------- *)

\* C13: if a record-kind pass fails before its commit succeeds, the stored
\* records of that kind are exactly as they were before the pass started,
\* however many entries the pass had processed.
Thm_C13_FailedPassWritesNothing ==
    \A i \in Calls :
        log[i].op = "sync" =>
            /\ ~log[i].notes_ok => Post(i).notes = log[i].pre.notes
            /\ (log[i].notes_ok /\ ~log[i].ok) => Post(i).folders = log[i].pre.folders

\* C13 witness: the notes pass had overwritten a stored note with a newer
\* state when the database raised.
Wit_C13_FailedAfterOverwrite ==
    \E i \in Calls :
        /\ log[i].op = "sync"
        /\ log[i].fault = [pass |-> "notes", after |-> 1]
        /\ NoteFound(log[i].pre.notes, log[i].user, log[i].nbatch[1].id)
        /\ NoteIsNewer(log[i].nbatch[1], log[i].pre.notes[log[i].nbatch[1].id])
        /\ Post(i).notes = log[i].pre.notes

(* ------------------------------- C14 ---------------------------------- *)

\* The records a failure-free execution of request r leaves when it runs on
\* store st at time t.
FailureFree(st, r, t) ==
    LET np == SyncNotesPass(st.notes, st.folders, st.files, r.user, r.nbatch, r.ckpt,
                            t, TRUE)
        fp == SyncFoldersPass(st.folders, r.user, r.fbatch, r.ckpt)
    IN  [notes |-> np.rows, folders |-> IF np.ok THEN fp.rows ELSE st.folders]

\* C14: after a sync call fails with a storage error, during the notes pass
\* or during the folders pass, retrying the identical request until it
\* succeeds leaves the same records of both kinds, attachment references
\* included, as a single failure-free execution of that request from the
\* original state (at the time of one of the attempts).
C14_RetryLikeFailureFree ==
    \A i \in Calls :
        (/\ SameRequestTwice(i)
         /\ log[i].fault # NoFault
         /\ log[i + 1].ok)
        => \E t \in {log[i].at, log[i + 1].at} :
               /\ Post(i + 1).notes = FailureFree(log[i].pre, log[i], t).notes
               /\ Post(i + 1).folders = FailureFree(log[i].pre, log[i], t).folders

(* ------------------------------- C15 ---------------------------------- *)

\* C15: the notes pass commits before the folders pass starts; if the folders
\* pass then fails, the failure is reported to the caller, the note changes
\* of the call remain persisted and the folder records are unchanged.
Thm_C15_NotesStandWhenFoldersFail ==
    \A i \in Calls :
        (log[i].op = "sync" /\ log[i].fault.pass = "folders") =>
            /\ ~log[i].ok
            /\ log[i].sync_timestamp = NoCkpt
            /\ Post(i).notes = FailureFree(log[i].pre, log[i], log[i].at).notes
            /\ Post(i).folders = log[i].pre.folders

\* C15 witness: the notes pass inserted a note, and the folders pass failed
\* after it had processed a folder state that it would have stored.
Wit_C15_NoteInsertedFolderFailed ==
    \E i \in Calls :
        /\ log[i].op = "sync"
        /\ log[i].fault = [pass |-> "folders", after |-> 1]
        /\ Len(log[i].nbatch) = 1
        /\ log[i].nbatch[1].id \notin DOMAIN log[i].pre.notes
        /\ log[i].nbatch[1].id \in DOMAIN Post(i).notes
        /\ log[i].fbatch[1].id \notin DOMAIN log[i].pre.folders
        /\ ~log[i].fbatch[1].is_deleted
        /\ log[i].fbatch[1].id \notin DOMAIN Post(i).folders

(* ------------------------------- C18 ---------------------------------- *)

\* Sync call i accepted a newer tombstone for the stored note id.
AcceptedNoteTombstone(i, id) ==
    /\ log[i].op = "sync"
    /\ log[i].ok
    /\ Len(log[i].nbatch) = 1
    /\ log[i].nbatch[1].id = id
    /\ log[i].nbatch[1].is_deleted
    /\ NoteFound(log[i].pre.notes, log[i].user, id)
    /\ NoteIsNewer(log[i].nbatch[1], log[i].pre.notes[id])

\* C18: after reconcile accepts a newer client note state with is_deleted =
\* true, the stored note has is_deleted = true and a null audio_path, whether
\* or not an attachment file existed at the referenced path.
C18_TombstoneClearsAttachment ==
    \A i \in Calls, id \in NoteIds :
        AcceptedNoteTombstone(i, id) =>
            /\ Post(i).notes[id].is_deleted
            /\ Post(i).notes[id].audio_path = NULL

(* ------------------------------- C16 ---------------------------------- *)

\* The entries of a raw batch that are well formed, in their order.
WellFormedOf(nbatch) == SelectSeq(nbatch, WellFormedNote)

\* C16: a sync request whose batch contains one malformed entry (a note entry
\* missing id or updated_at) still has all its well-formed entries applied
\* by reconcile; only the malformed entry is skipped.
C16_MalformedEntrySkipped ==
    \A i \in Calls :
        (/\ log[i].op = "sync"
         /\ Len(WellFormedOf(log[i].nbatch)) = Len(log[i].nbatch) - 1)
        => Post(i).notes =
               SyncNotesPass(log[i].pre.notes, log[i].pre.folders, log[i].pre.files,
                             log[i].user, WellFormedOf(log[i].nbatch), log[i].ckpt,
                             log[i].at, TRUE).rows

(* ------------------------------- C17 ---------------------------------- *)

\* The (owner, id) pairs of the rows of a table.
Keys(rows) == {<<rows[id].user_id, id>> : id \in DOMAIN rows}

\* C17: no reconcile call removes a stored row: for each kind, the (owner,
\* id) rows after a reconcile call are a superset of those before it;
\* deletion through sync only sets is_deleted on the existing row.
Thm_C17_SyncNeverRemovesRows ==
    \A i \in Calls :
        log[i].op = "sync" =>
            /\ Keys(log[i].pre.notes) \subseteq Keys(Post(i).notes)
            /\ Keys(log[i].pre.folders) \subseteq Keys(Post(i).folders)

\* C17 witness: reconcile accepted a tombstone for a stored note and one for
\* a stored folder; both rows are still there, marked deleted.
Wit_C17_TombstonedRowsStay ==
    \E i \in Calls, j \in Calls, n \in NoteIds, f \in FolderIds :
        /\ AcceptedNoteTombstone(i, n)
        /\ Post(i).notes[n].is_deleted
        /\ SyncDeletedFolder(j, f)

(* ------------------------------- C19 ---------------------------------- *)

\* Sync call i inserted the state of its one note entry, or accepted it as an
\* overwrite.
AcceptedNoteState(i) ==
    /\ log[i].op = "sync"
    /\ log[i].ok
    /\ Len(log[i].nbatch) = 1
    /\ LET e == log[i].nbatch[1]
       IN  IF NoteFound(log[i].pre.notes, log[i].user, e.id)
           THEN NoteIsNewer(e, log[i].pre.notes[e.id])
           ELSE NoteCreates(e)

\* C19: every note state that reconcile inserts or accepts as an overwrite
\* and whose title or content is non-empty (either one suffices) gets a
\* re-indexing job queued for it.
C19_TitleOrContentIsIndexed ==
    \A i \in Calls :
        (AcceptedNoteState(i) /\ HasText(log[i].nbatch[1]))
            => log[i].nbatch[1].id \in log[i].indexed

(* ------------------------------- C20 ---------------------------------- *)

\* C20: a failure of the re-indexing job of a note never makes the sync call
\* return an error and never undoes the note writes of that call: the client
\* has the normal sync response, and the accepted note states stay stored.
Thm_C20_IndexingFailureSwallowed ==
    \A j \in jobs :
        j.state = "failed" =>
            /\ log[j.call].ok
            /\ log[j.call].sync_timestamp = log[j.call].at
            /\ j.id \in DOMAIN log[j.call].ndelta
            /\ j.call = Len(log) =>
                   notes = FailureFree(log[j.call].pre, log[j.call], log[j.call].at).notes

\* C20 witness: the job of a note that the last sync call stored has raised.
Wit_C20_JobRaised ==
    \E j \in jobs :
        /\ j.state = "failed"
        /\ j.call = Len(log)
        /\ AcceptedNoteState(j.call)
        /\ NoteIs(notes[j.id], log[j.call].nbatch[1])

(* ------------------------------- C21 ---------------------------------- *)

\* Sync call i carries one note entry, newer than the row the owner has for
\* its id, and a checkpoint earlier than the time of the call.
NewerNoteBeforeNow(i) ==
    /\ OneNote(i)
    /\ NoteFound(log[i].pre.notes, log[i].user, log[i].nbatch[1].id)
    /\ log[i].nbatch[1].updated_at > log[i].pre.notes[log[i].nbatch[1].id].updated_at
    /\ log[i].ckpt # NoCkpt
    /\ log[i].ckpt < log[i].at

NewFolderBeforeNow(i) ==
    /\ OneFolder(i)
    /\ ~log[i].fbatch[1].is_deleted
    /\ ~FolderFound(log[i].pre.folders, log[i].user, log[i].fbatch[1].id)
    /\ log[i].ckpt < log[i].at

\* C22: when reconcile receives a non-deleted folder state whose id is
\* unknown for the owner, a folder row with that id, owned by the caller and
\* carrying the client's name and updated_at, is created and is part of the
\* delta of the same call, for an absent checkpoint and for every checkpoint
\* earlier than the call's server time.
C22_NewFolderCreatedAndReturned ==
    \A i \in Calls :
        NewFolderBeforeNow(i) =>
            LET e == log[i].fbatch[1]
            IN  /\ FolderFound(Post(i).folders, log[i].user, e.id)
                /\ FolderIs(Post(i).folders[e.id], e)
                /\ e.id \in DOMAIN log[i].fdelta

(* ------------------------------- C23 ---------------------------------- *)

\* Sync call i carries two note entries, and both are for the same id.
TwoEntriesOneId(i) ==
    /\ log[i].op = "sync"
    /\ Len(log[i].nbatch) = 2
    /\ log[i].nbatch[1].id = log[i].nbatch[2].id

\* C23: when one batch contains two entries with the same id, the final
\* stored state of that id is determined by the entry that comes last in the
\* batch, whatever the updated_at values of the two entries: the call leaves
\* the notes that the last entry alone would have left.
C23_LastInBatchWins ==
    \A i \in Calls :
        TwoEntriesOneId(i) =>
            Post(i).notes =
                SyncNotesPass(log[i].pre.notes, log[i].pre.folders, log[i].pre.files,
                              log[i].user, <<log[i].nbatch[2]>>, log[i].ckpt,
                              log[i].at, log[i].rm_ok).rows

(* ------------------------------- C24 ---------------------------------- *)

\* The other order of a batch of two entries.
Swapped(batch) == <<batch[2], batch[1]>>

\* The entries of the batch have pairwise distinct ids, and there are two.
TwoDistinctIds(batch) == Len(batch) = 2 /\ batch[1].id # batch[2].id

\* C24: for a batch whose entries have pairwise distinct ids, every
\* permutation of the batch produces the same stored state and the same set
\* of returned records: the call leaves and returns what the pass would have
\* left and returned for the batch in its other order.
C24_BatchOrderIrrelevant ==
    \A i \in Calls :
        log[i].op = "sync" =>
            /\ TwoDistinctIds(log[i].nbatch) =>
                   LET other == SyncNotesPass(log[i].pre.notes, log[i].pre.folders,
                                              log[i].pre.files, log[i].user,
                                              Swapped(log[i].nbatch), log[i].ckpt,
                                              log[i].at, log[i].rm_ok)
                   IN  /\ other.rows = Post(i).notes
                       /\ other.delta = log[i].ndelta
            /\ TwoDistinctIds(log[i].fbatch) =>
                   LET other == SyncFoldersPass(log[i].pre.folders, log[i].user,
                                                Swapped(log[i].fbatch), log[i].ckpt)
                   IN  /\ other.rows = Post(i).folders
                       /\ other.delta = log[i].fdelta

(* ------------------------------- C25 ---------------------------------- *)

\* C25: for every stored record, updated_at never decreases over any sequence
\* of sync calls and direct API calls (update, soft delete, folder-delete
\* cascade): no call replaces a stored updated_at by an earlier value, also
\* when the stored value was asserted by a client whose clock is ahead of the
\* server's.
C25_UpdatedAtNeverDecreases ==
    \A i \in Calls :
        /\ \A id \in DOMAIN log[i].pre.notes \cap DOMAIN Post(i).notes :
               Post(i).notes[id].updated_at >= log[i].pre.notes[id].updated_at
        /\ \A id \in DOMAIN log[i].pre.folders \cap DOMAIN Post(i).folders :
               Post(i).folders[id].updated_at >= log[i].pre.folders[id].updated_at

(* ------------------------------- C26 ---------------------------------- *)

\* Call i is the most recent call before call j that created the note id or
\* changed a field of it, and call j did not change it.
LastNoteMutation(i, j, id) ==
    /\ i < j
    /\ NoteMutated(i, id)
    /\ \A k \in (i + 1) .. j :
           /\ id \in DOMAIN Post(k).notes
           /\ Post(k).notes[id] = Post(i).notes[id]

LastFolderMutation(i, j, id) ==
    /\ i < j
    /\ FolderMutated(i, id)
    /\ \A k \in (i + 1) .. j :
           /\ id \in DOMAIN Post(k).folders
           /\ Post(k).folders[id] = Post(i).folders[id]

\* C26: a sync call whose checkpoint is equal to or later than the time T of
\* a record's most recent mutation does not include that record in the
\* returned delta.
C26_NothingReturnedAtOrAfterCheckpoint ==
    \A i \in Calls, j \in Calls :
        (/\ log[j].op = "sync"
         /\ log[j].ckpt # NoCkpt
         /\ log[j].ckpt >= log[i].at)
        => /\ \A id \in NoteIds :
                  LastNoteMutation(i, j, id) => id \notin DOMAIN log[j].ndelta
           /\ \A id \in FolderIds :
                  LastFolderMutation(i, j, id) => id \notin DOMAIN log[j].fdelta

(* ------------------------------- C27 ---------------------------------- *)

\* The rows of a table that belong to user.
RowsOf(rows, user) ==
    Restrict(rows, {id \in DOMAIN rows : rows[id].user_id = user})

\* C27: a sync call without a checkpoint returns, for each kind, every record
\* of the owner as it stands after the batch was applied, tombstoned records
\* included, and no record of any other owner.
Thm_C27_NoCheckpointReturnsAll ==
    \A i \in Calls :
        (log[i].op = "sync" /\ log[i].ok /\ log[i].ckpt = NoCkpt) =>
            /\ log[i].ndelta = RowsOf(Post(i).notes, log[i].user)
            /\ log[i].fdelta = RowsOf(Post(i).folders, log[i].user)

\* C27 witness: a call without checkpoint accepted a folder tombstone and
\* returned the tombstoned folder, while the other user has a note.
Wit_C27_TombstoneReturned ==
    \E i \in Calls, f \in FolderIds, n \in NoteIds :
        /\ log[i].op = "sync"
        /\ log[i].ok
        /\ log[i].ckpt = NoCkpt
        /\ f \in DOMAIN log[i].fdelta
        /\ log[i].fdelta[f].is_deleted
        /\ n \in DOMAIN Post(i).notes
        /\ Post(i).notes[n].user_id # log[i].user
        /\ n \notin DOMAIN log[i].ndelta

(* ------------------------------- C28 ---------------------------------- *)

\* Call i is a hard delete of a note through the direct API.
HardDeleteOfNote(i) == log[i].op = "delete_note" /\ log[i].hard

\* C28: a direct hard delete of a note removes the row and its attachment
\* file; when the attachment file is absent or cannot be removed, the delete
\* still succeeds and the row is removed (and the disk is left as it was).
Thm_C28_HardDeleteToleratesMissingFile ==
    \A i \in Calls :
        HardDeleteOfNote(i) =>
            LET p == log[i].pre.notes[log[i].id].audio_path
            IN  /\ log[i].ok
                /\ log[i].id \notin DOMAIN Post(i).notes
                /\ IF p # NULL /\ p \in log[i].pre.files /\ log[i].rm_ok
                   THEN Post(i).files = log[i].pre.files \ {p}
                   ELSE Post(i).files = log[i].pre.files

\* C28 witness: the note had an attachment whose file was on disk and could
\* not be removed; the row is gone and the file is still there.
Wit_C28_RowGoneFileKept ==
    \E i \in Calls :
        /\ HardDeleteOfNote(i)
        /\ log[i].pre.notes[log[i].id].audio_path \in log[i].pre.files
        /\ ~log[i].rm_ok
        /\ log[i].id \notin DOMAIN Post(i).notes
        /\ log[i].pre.notes[log[i].id].audio_path \in Post(i).files

(* ------------------------------- C29 ---------------------------------- *)

\* C29: the owner (user_id) of a stored note or folder never changes: a row
\* that a call creates, through sync or the direct API, belongs to the
\* authenticated caller, and no call assigns user_id on a row that exists.
Thm_C29_OwnerNeverChanges ==
    \A i \in Calls :
        /\ \A id \in DOMAIN Post(i).notes :
               Post(i).notes[id].user_id =
                   IF id \in DOMAIN log[i].pre.notes
                   THEN log[i].pre.notes[id].user_id
                   ELSE log[i].user
        /\ \A id \in DOMAIN Post(i).folders :
               Post(i).folders[id].user_id =
                   IF id \in DOMAIN log[i].pre.folders
                   THEN log[i].pre.folders[id].user_id
                   ELSE log[i].user

\* C29 witness: one user created a folder through sync, and the other user
\* then sent a newer state for the same id; the folder is still the first
\* user's.
Wit_C29_OtherUserSentSameId ==
    \E i \in Calls, j \in Calls, f \in FolderIds :
        /\ i < j
        /\ log[i].op = "sync"
        /\ f \notin DOMAIN log[i].pre.folders
        /\ FolderFound(Post(i).folders, log[i].user, f)
        /\ log[j].op = "sync"
        /\ log[j].user # log[i].user
        /\ Len(log[j].fbatch) = 1
        /\ log[j].fbatch[1].id = f
        /\ log[j].fbatch[1].updated_at > Post(i).folders[f].updated_at
        /\ FolderFound(Post(j).folders, log[i].user, f)

(* ------------------------------- C30 ---------------------------------- *)

\* C30: with a checkpoint C present, the notes delta returned by a sync call
\* is exactly the set of the owner's notes whose updated_at > C or synced_at
\* > C, evaluated on the state after the batch was applied: no other note is
\* returned and none that satisfies the predicate is omitted.
Thm_C30_NotesDeltaExact ==
    \A i \in Calls :
        (log[i].op = "sync" /\ log[i].ok /\ log[i].ckpt # NoCkpt) =>
            /\ DOMAIN log[i].ndelta =
                   {id \in DOMAIN Post(i).notes :
                       /\ Post(i).notes[id].user_id = log[i].user
                       /\ \/ Post(i).notes[id].updated_at > log[i].ckpt
                          \/ Post(i).notes[id].synced_at > log[i].ckpt}
            /\ \A id \in DOMAIN log[i].ndelta : log[i].ndelta[id] = Post(i).notes[id]

\* C30 witness: of the caller's two notes the call returned the one that it
\* had just accepted with an updated_at not later than the checkpoint, and
\* not the one that was left as it was.
Wit_C30_OnlyTouchedNoteReturned ==
    \E i \in Calls, a \in NoteIds, b \in NoteIds :
        /\ log[i].op = "sync"
        /\ log[i].ok
        /\ log[i].ckpt # NoCkpt
        /\ NoteFound(Post(i).notes, log[i].user, a)
        /\ NoteFound(Post(i).notes, log[i].user, b)
        /\ Post(i).notes[a].updated_at <= log[i].ckpt
        /\ a \in DOMAIN log[i].ndelta
        /\ b \notin DOMAIN log[i].ndelta

(* ------------------------------- C31 ---------------------------------- *)

\* C31: a re-indexing job is executed only for note states whose notes pass
\* committed: if the pass fails at flush or at commit, no re-indexing job for
\* that call's notes is run.  Every job that is queued to run or has run and
\* raised belongs to a call whose notes pass committed, and the vector store
\* holds only notes that are stored.
Thm_C31_JobsOnlyAfterCommit ==
    /\ \A j \in jobs :
           /\ log[j.call].notes_ok
           /\ j.id \in DOMAIN Post(j.call).notes
    /\ \A id \in docs : id \in DOMAIN notes

\* C31 witness: the database raised when the notes pass had processed a new
\* note with content and had added its task; no job exists.
Wit_C31_TaskAddedPassFailed ==
    \E i \in Calls :
        /\ log[i].op = "sync"
        /\ ~log[i].notes_ok
        /\ log[i].indexed # {}
        /\ log[i].nbatch[1].id \notin DOMAIN notes
        /\ jobs = {}

(* ------------------------------- C32 ---------------------------------- *)

\* Sync call i carries a newer tombstone for a stored note whose attachment
\* file (the one the incoming state references) is on disk, and os.remove
\* fails in this call.
TombstoneRemoveFailed(i) ==
    /\ OneNote(i)
    /\ log[i].fault = NoFault
    /\ log[i].nbatch[1].is_deleted
    /\ NoteFound(log[i].pre.notes, log[i].user, log[i].nbatch[1].id)
    /\ NoteIsNewer(log[i].nbatch[1], log[i].pre.notes[log[i].nbatch[1].id])
    /\ log[i].nbatch[1].audio_path \in log[i].pre.files
    /\ ~log[i].rm_ok

\* C32: if removing the attachment file fails while reconcile applies a note
\* tombstone, the note is still stored with is_deleted = true and the
\* client's updated_at, and the pass commits normally.
Thm_C32_RemoveFailureIgnored ==
    \A i \in Calls :
        TombstoneRemoveFailed(i) =>
            LET e == log[i].nbatch[1]
            IN  /\ log[i].ok
                /\ Post(i).notes[e.id].is_deleted
                /\ Post(i).notes[e.id].updated_at = e.updated_at
                /\ Post(i).notes[e.id].synced_at = log[i].at
                /\ e.id \in DOMAIN log[i].ndelta

\* C32 witness: os.remove failed for the tombstone of a live note; the note
\* is tombstoned and the file is still on disk.
Wit_C32_TombstonedFileKept ==
    \E i \in Calls :
        /\ TombstoneRemoveFailed(i)
        /\ ~log[i].pre.notes[log[i].nbatch[1].id].is_deleted
        /\ Post(i).notes[log[i].nbatch[1].id].is_deleted
        /\ log[i].nbatch[1].audio_path \in Post(i).files

(* ------------------------------- C33 ---------------------------------- *)

\* C33: if the notes pass aborts before its commit succeeds, no attachment
\* file has been removed by it: an attachment file exists after the aborted
\* call exactly when it existed before the call.
C33_AbortedPassRemovesNoFile ==
    \A i \in Calls :
        (log[i].op = "sync" /\ ~log[i].notes_ok) => Post(i).files = log[i].pre.files

(* ------------------------------- C34 ---------------------------------- *)

\* The attachment paths that the stored notes of user reference.
StoredPaths(rows, user) ==
    {rows[id].audio_path : id \in {x \in DOMAIN rows : rows[x].user_id = user}} \ {NULL}

\* C34: the only attachment file a sync tombstone can remove is the one
\* referenced by the audio_path that the server stored for that owner's note
\* before the call; the audio_path asserted by the client in the incoming
\* state never selects the file to remove.
C34_OnlyStoredAttachmentRemoved ==
    \A i \in Calls :
        log[i].op = "sync" =>
            (log[i].pre.files \ Post(i).files)
                \subseteq StoredPaths(log[i].pre.notes, log[i].user)

(* ------------------------------- C35 ---------------------------------- *)

\* Call i hard-deleted a record of kind notes / folders with this id through
\* the direct API, and the later call j is a sync call of the same user that
\* carries one entry, a non-deleted state of that id asserted before the
\* time of the deletion.
NoteBackAfterHardDelete(i, j) ==
    /\ i < j
    /\ log[i].op = "delete_note" /\ log[i].hard
    /\ OneNote(j)
    /\ log[j].user = log[i].user
    /\ log[j].nbatch[1].id = log[i].id
    /\ ~log[j].nbatch[1].is_deleted
    /\ log[j].nbatch[1].updated_at < log[i].at

FolderBackAfterHardDelete(i, j) ==
    /\ i < j
    /\ log[i].op = "delete_folder" /\ log[i].hard
    /\ OneFolder(j)
    /\ log[j].user = log[i].user
    /\ log[j].fbatch[1].id = log[i].id
    /\ ~log[j].fbatch[1].is_deleted
    /\ log[j].fbatch[1].updated_at < log[i].at

\* C35: after a record is hard-deleted through the direct API at server time
\* T, a later sync call that carries a non-deleted client state of that id
\* with updated_at < T does not re-create the record.
C35_HardDeletedStaysDeleted ==
    \A i \in Calls, j \in Calls :
        /\ NoteBackAfterHardDelete(i, j) => log[i].id \notin DOMAIN Post(j).notes
        /\ FolderBackAfterHardDelete(i, j) => log[i].id \notin DOMAIN Post(j).folders

(* ------------------------------- C36 ---------------------------------- *)

\* Each note's folder_id is null or the id of a stored folder of the note's
\* owner.
FolderRefsOwned(store) ==
    \A n \in DOMAIN store.notes :
        \/ store.notes[n].folder_id = NULL
        \/ /\ store.notes[n].folder_id \in DOMAIN store.folders
           /\ store.folders[store.notes[n].folder_id].user_id = store.notes[n].user_id

\* C36: in every reachable state, after any sequence of sync calls and direct
\* API calls, each note's folder_id is either null or the id of a stored
\* folder owned by the same user as the note: no call leads from a store
\* where this is so to one where it is not.
C36_FolderRefsStayOwned ==
    \A i \in Calls : FolderRefsOwned(log[i].pre) => FolderRefsOwned(Post(i))

(* ------------------------------- C37 ---------------------------------- *)

\* Sync call i carries a non-deleted folder that is not stored and a
\* non-deleted note that is not stored and references that folder.
NewNoteInNewFolder(i) ==
    /\ log[i].op = "sync"
    /\ Len(log[i].nbatch) = 1
    /\ Len(log[i].fbatch) = 1
    /\ ~log[i].nbatch[1].is_deleted
    /\ ~log[i].fbatch[1].is_deleted
    /\ log[i].nbatch[1].folder_id = log[i].fbatch[1].id
    /\ log[i].nbatch[1].id \notin DOMAIN log[i].pre.notes
    /\ log[i].fbatch[1].id \notin DOMAIN log[i].pre.folders

\* C37: a sync request that contains a folder not yet stored on the server
\* together with a new note referencing that folder completes successfully
\* and stores both records, at the first attempt or when it is sent again.
C37_NoteWithNewFolderSyncs ==
    \A i \in Calls :
        NewNoteInNewFolder(i) =>
            /\ log[i].ok
            /\ log[i].nbatch[1].id \in DOMAIN Post(i).notes
            /\ log[i].fbatch[1].id \in DOMAIN Post(i).folders

(* ------------------------------- C38 ---------------------------------- *)

\* Sync call i carries a non-deleted state of id whose updated_at is strictly
\* greater than the one stored before the call.
CarriesNewerLive(i, batch, id, stored) ==
    /\ log[i].op = "sync"
    /\ \E k \in EntriesFor(batch, id) :
           /\ ~batch[k].is_deleted
           /\ batch[k].updated_at > stored.updated_at

\* C38: a stored record's is_deleted flag goes from true back to false only
\* when reconcile accepts a client state with strictly greater updated_at and
\* is_deleted = false; no direct API call and no not-newer sync entry ever
\* clears it.
Thm_C38_OnlyNewerLiveStateUndeletes ==
    \A i \in Calls :
        /\ \A id \in DOMAIN log[i].pre.notes \cap DOMAIN Post(i).notes :
               (log[i].pre.notes[id].is_deleted /\ ~Post(i).notes[id].is_deleted)
                   => CarriesNewerLive(i, log[i].nbatch, id, log[i].pre.notes[id])
        /\ \A id \in DOMAIN log[i].pre.folders \cap DOMAIN Post(i).folders :
               (log[i].pre.folders[id].is_deleted /\ ~Post(i).folders[id].is_deleted)
                   => CarriesNewerLive(i, log[i].fbatch, id, log[i].pre.folders[id])

\* C38 witness: a note was soft-deleted through the direct API and a later
\* sync call brought it back with a newer live state.
Wit_C38_NewerLiveStateUndeleted ==
    \E i \in Calls, j \in Calls :
        /\ i < j
        /\ log[i].op = "delete_note" /\ ~log[i].hard
        /\ Post(i).notes[log[i].id].is_deleted
        /\ OneNote(j)
        /\ log[j].nbatch[1].id = log[i].id
        /\ ~Post(j).notes[log[i].id].is_deleted

====
